---- MODULE Spec2Model ----
(***************************************************************************)
(* Resume converter (server.js): POST /convert handler, callChatGPTAPI,    *)
(* generateWordDocument.                                                   *)
(*                                                                         *)
(* Three specifications share this module:                                 *)
(*   Spec          the /convert handler, several requests interleaved at    *)
(*                 their await points;                                     *)
(*   SpecStructure callChatGPTAPI as a function of the upstream outcome;    *)
(*   SpecRender    generateWordDocument as a function of the record.        *)
(***************************************************************************)
EXTENDS Integers, Sequences, FiniteSets, TLC

VARIABLES
    \* --- Spec: one entry per request -----------------------------------
    req,        \* the request: [file, apiKey]  (req.file, req.body.apiKey)
    upstream,   \* what the remote endpoint does with this request's call
    pc,         \* position of the handler invocation
    resumeText, \* handler local  (line 72)
    resumeData, \* handler local  (line 93)
    docBuffer,  \* handler local  (line 97)
    res,        \* the HTTP response sent
    calls,      \* number of fetch() calls issued to the completion endpoint
    trace,      \* pipeline steps completed successfully, in order
    sentAuth,   \* Authorization headers sent to the completion endpoint
    \* --- SpecStructure --------------------------------------------------
    sOutcome,   \* outcome of fetch() handed to callChatGPTAPI
    sResult,    \* what callChatGPTAPI returned or threw
    spc,
    \* --- SpecRender -----------------------------------------------------
    data,       \* argument of generateWordDocument
    doc,        \* the children array of the document's single section
    rpc

vars == <<req, upstream, pc, resumeText, resumeData, docBuffer, res, calls,
          trace, sentAuth, sOutcome, sResult, spc, data, doc, rpc>>

reqVars == <<req, upstream, pc, resumeText, resumeData, docBuffer, res, calls, trace,
            sentAuth>>
structVars == <<sOutcome, sResult, spc>>
renderVars == <<data, doc, rpc>>

(***************************************************************************)
(* Bounds of the model.                                                    *)
(***************************************************************************)
MaxLen == 4       \* longest reply content, in lexemes
MaxList == 2      \* longest list inside a record
MaxJobs == 2      \* most jobs / education entries in a record
NumReq == 2       \* concurrent /convert requests

\* k-tuples over S for k <= n
SeqsUpTo(S, n) == UNION {[1..k -> S] : k \in 0..n}

(***************************************************************************)
(* Optional values: a JS property that may be undefined.                    *)
(***************************************************************************)
None == [has |-> FALSE]
Some(x) == [has |-> TRUE, val |-> x]

(***************************************************************************)
(* Reply text.  A text is a sequence of lexemes:                           *)
(*   "{" "}"   braces                                                      *)
(*   "k"       a member key with its colon, "name":                        *)
(*   "v"       a JSON string literal                                       *)
(*   "n"       the literal null                                            *)
(*   "w"       white space                                                 *)
(*   "p"       a run of prose (no braces), never valid inside JSON         *)
(***************************************************************************)
Tok == {"{", "}", "k", "v", "n", "w", "p"}

NotSpace(t) == t # "w"

RECURSIVE IsJSONValue(_)
\* JSON grammar over the lexemes, white space already skipped:
\*   value  ::= "v" | "n" | object
\*   object ::= "{" "}" | "{" "k" value "}"
IsJSONValue(s) ==
    \/ s = <<"v">>
    \/ s = <<"n">>
    \/ /\ Len(s) >= 2
       /\ s[1] = "{"
       /\ s[Len(s)] = "}"
       /\ \/ Len(s) = 2
          \/ /\ Len(s) >= 4
             /\ s[2] = "k"
             /\ IsJSONValue(SubSeq(s, 3, Len(s) - 1))

\* JSON.parse(text): white space is skipped between lexemes; the value is
\* represented by its lexemes without white space; a text that is not one JSON
\* value throws SyntaxError.
JSONParseOk(text) == IsJSONValue(SelectSeq(text, NotSpace))
JSONParseValue(text) == SelectSeq(text, NotSpace)

\* responseText.match(/\{[\s\S]*\}/): leftmost "{", then greedily to the last
\* "}" of the text.  null when no "}" follows the first "{".
FirstOpen(text) == CHOOSE i \in 1..Len(text) :
                      text[i] = "{" /\ \A j \in 1..(i-1) : text[j] # "{"
LastClose(text) == CHOOSE i \in 1..Len(text) :
                      text[i] = "}" /\ \A j \in (i+1)..Len(text) : text[j] # "}"
HasMatch(text) ==
    \E i \in 1..Len(text) : \E j \in (i+1)..Len(text) :
        text[i] = "{" /\ text[j] = "}"
jsonMatch(text) == SubSeq(text, FirstOpen(text), LastClose(text))

(***************************************************************************)
(* Errors and results of an async function.  An error message is the        *)
(* sequence of the parts its template literal is built from.                *)
(***************************************************************************)
Err(name, message) == [name |-> name, message |-> message]
Return(v) == [ok |-> TRUE, value |-> v]
Throw(e) == [ok |-> FALSE, error |-> e]

ParseFailedMessage == "Failed to parse ChatGPT response as JSON"
ApiErrorPrefix == "ChatGPT API error: "

(***************************************************************************)
(* The outcome of fetch(): a rejected promise, or a response with a status *)
(* and a body.  A body is not JSON, or JSON of one of these shapes:         *)
(*   "null"        null                                                    *)
(*   "error"       {error: {message: m}}   (m possibly undefined or "")    *)
(*   "noerror"     {}                                                      *)
(*   "completion"  {choices: [{message: {content: text}}]}                 *)
(***************************************************************************)
ResponseOk(status) == status >= 200 /\ status < 300

\* the parse of the message content, lines 194-204
ParseContent(responseText) ==
    IF JSONParseOk(responseText)
    THEN Return(JSONParseValue(responseText))
    ELSE IF HasMatch(responseText)
         THEN IF JSONParseOk(jsonMatch(responseText))
              THEN Return(JSONParseValue(jsonMatch(responseText)))
              ELSE Throw(Err("SyntaxError", <<"Unexpected token in JSON">>))
         ELSE Throw(Err("Error", <<ParseFailedMessage>>))

\* errorData.error?.message || `HTTP ${response.status}`, line 187
ErrorMessageOf(body, status) ==
    IF body.shape = "error" /\ body.message.has /\ body.message.val # ""
    THEN <<body.message.val>>
    ELSE <<"HTTP ", ToString(status)>>

\* lines 185-189
NotOkBranch(response) ==
    IF ~response.body.json
    THEN Throw(Err("FetchError", <<"invalid json response body">>))
    ELSE IF response.body.shape = "null"
         THEN Throw(Err("TypeError", <<"Cannot read properties of null">>))
         ELSE Throw(Err("Error",
                 <<ApiErrorPrefix>> \o ErrorMessageOf(response.body, response.status)))

\* lines 191-204
OkBranch(response) ==
    IF ~response.body.json
    THEN Throw(Err("FetchError", <<"invalid json response body">>))
    ELSE IF response.body.shape # "completion"
         THEN Throw(Err("TypeError", <<"Cannot read properties of undefined">>))
         ELSE ParseContent(response.body.content)

\* callChatGPTAPI after fetch() has settled with `outcome`; the catch at lines
\* 206-209 logs and rethrows.
callChatGPTAPI(outcome) ==
    IF outcome.net = "rejected"
    THEN Throw(Err("FetchError", <<"request failed">>))
    ELSE IF ~ResponseOk(outcome.status)
         THEN NotOkBranch(outcome)
         ELSE OkBranch(outcome)

(***************************************************************************)
(* Upstream outcomes.                                                      *)
(***************************************************************************)
Statuses == {200, 401, 502}
Messages == {None, Some(""), Some("Incorrect API key")}

BodiesOver(contents) ==
    {[json |-> FALSE]}
    \cup {[json |-> TRUE, shape |-> "null"], [json |-> TRUE, shape |-> "noerror"]}
    \cup {[json |-> TRUE, shape |-> "error", message |-> m] : m \in Messages}
    \cup {[json |-> TRUE, shape |-> "completion", content |-> c] : c \in contents}

OutcomesOver(contents) ==
    {[net |-> "rejected"]}
    \cup {[net |-> "response", status |-> s, body |-> b] :
              s \in Statuses, b \in BodiesOver(contents)}

(***************************************************************************)
(* SpecStructure: callChatGPTAPI on every outcome within the bounds.        *)
(***************************************************************************)
NoResult == [ok |-> FALSE, error |-> Err("none", <<>>)]

StructInit ==
    /\ sOutcome \in OutcomesOver(SeqsUpTo(Tok, MaxLen))
    /\ sResult = NoResult
    /\ spc = "start"

Structure ==
    /\ spc = "start"
    /\ sResult' = callChatGPTAPI(sOutcome)
    /\ spc' = "done"
    /\ UNCHANGED sOutcome

(***************************************************************************)
(* generateWordDocument.  A record is [type |-> "object", ...] with every    *)
(* field optional, or [type |-> "null"] (the JSON value null).               *)
(* A Paragraph is [alignment, before, after, bullet, children]; a TextRun   *)
(* is [text, size, bold, underline].                                        *)
(***************************************************************************)
TextRun(text, size, bold, underline) ==
    [text |-> text, size |-> size, bold |-> bold, underline |-> underline]

Paragraph(alignment, before, after, bullet, children) ==
    [alignment |-> alignment, before |-> before, after |-> after,
     bullet |-> bullet, children |-> children]

\* value || fallback on an optional string: undefined and "" are falsy
OrDefault(opt, fallback) ==
    IF opt.has /\ opt.val # "" THEN opt.val ELSE fallback

\* list || []
OrEmptyList(opt) == IF opt.has THEN opt.val ELSE <<>>

\* obj?.field
OptField(opt, f) == IF opt.has THEN opt.val[f] ELSE None

\* truthiness of an optional string
Truthy(opt) == opt.has /\ opt.val # ""

RECURSIVE Flatten(_)
\* the spread of an array of arrays (flatMap)
Flatten(ss) == IF ss = <<>> THEN <<>> ELSE Head(ss) \o Flatten(Tail(ss))

\* a section header paragraph
Header(label) ==
    Paragraph("DEFAULT", 120, 120, FALSE, <<TextRun(label, 24, TRUE, FALSE)>>)

\* a bulleted paragraph, numbering reference "bullet-list"
Bullet(text, after) ==
    Paragraph("DEFAULT", 0, after, TRUE, <<TextRun(text, 22, FALSE, FALSE)>>)

NameBlock(d) ==
    Paragraph("CENTER", 0, 100, FALSE,
              <<TextRun(OrDefault(d.name, "NAME"), 32, TRUE, FALSE)>>)

ContactBlock(d) ==
    Paragraph("CENTER", 0, 50, FALSE,
              <<TextRun(OrDefault(d.location, "Location") \o "|"
                          \o OrDefault(d.phone, "Phone"), 22, FALSE, FALSE)>>)

EmailBlock(d) ==
    Paragraph("CENTER", 0, 200, FALSE,
              <<TextRun(OrDefault(d.email, "email@example.com"), 22, FALSE, TRUE)>>)

\* the comparison made against length instead of length - 1
SummaryAfterOffByOne(index, length) == IF index = length THEN 240 ELSE 120

\* spacing of summary paragraph `index` (0-based) among `length`
SummaryAfter(index, length) == IF index = length - 1 THEN 240 ELSE 120

SummaryBlocks(d) ==
    LET summary == OrEmptyList(d.summary)
    IN  [i \in 1..Len(summary) |->
            Paragraph("JUSTIFIED", 0, SummaryAfter(i - 1, Len(summary)), FALSE,
                      <<TextRun(summary[i], 22, FALSE, FALSE)>>)]

DatesPadding == "                                         "

\* the spacing without the test on the job's position
ResponsibilityAfterAnyJob(respIndex, respLength, jobIndex, jobLength) ==
    IF respIndex = respLength - 1 THEN 120 ELSE 60

\* spacing of responsibility respIndex of job jobIndex (both 0-based)
ResponsibilityAfter(respIndex, respLength, jobIndex, jobLength) ==
    IF respIndex = respLength - 1 /\ jobIndex < jobLength - 1 THEN 120 ELSE 60

JobParagraphs(job, jobIndex, jobLength) ==
    LET responsibilities == OrEmptyList(job.responsibilities)
    IN  <<Paragraph("DEFAULT", 0, 60, FALSE,
              <<TextRun(OrDefault(job.title, "Job Title"), 22, TRUE, FALSE),
                TextRun(DatesPadding \o OrDefault(job.dates, "Dates"),
                        22, FALSE, FALSE)>>),
          Paragraph("DEFAULT", 0, 80, FALSE,
              <<TextRun(OrDefault(job.company, "Company Name"), 22, FALSE, FALSE)>>)>>
        \o [r \in 1..Len(responsibilities) |->
              Bullet(responsibilities[r],
                     ResponsibilityAfter(r - 1, Len(responsibilities),
                                         jobIndex, jobLength))]

ExperienceBlocks(d) ==
    LET experience == OrEmptyList(d.experience)
    IN  Flatten([j \in 1..Len(experience) |->
                    JobParagraphs(experience[j], j - 1, Len(experience))])

EducationParagraphs(edu, index, length) ==
    <<Paragraph("DEFAULT", 0, 60, FALSE,
          <<TextRun(OrDefault(edu.degree, "Degree"), 22, TRUE, FALSE)>>),
      Paragraph("DEFAULT", 0, IF index = length - 1 THEN 180 ELSE 120, FALSE,
          <<TextRun(OrDefault(edu.institution, "Institution") \o " | "
                      \o OrDefault(edu.year, "Year"), 22, FALSE, FALSE)>>)>>

EducationBlocks(d) ==
    LET education == OrEmptyList(d.education)
    IN  Flatten([e \in 1..Len(education) |->
                    EducationParagraphs(education[e], e - 1, Len(education))])

\* a header and one bullet per item, the last one with the section gap
BulletedSection(label, items) ==
    <<Header(label)>>
    \o [i \in 1..Len(items) |->
          Bullet(items[i], IF i - 1 = Len(items) - 1 THEN 180 ELSE 60)]

\* the section emitted without the test on the list
OptionalSectionAlways(label, opt) ==
    BulletedSection(label, IF opt.has THEN opt.val ELSE <<>>)

\* data.certifications && data.certifications.length > 0 ? [...] : []
OptionalSection(label, opt) ==
    IF opt.has /\ Len(opt.val) > 0 THEN BulletedSection(label, opt.val) ELSE <<>>

CertificationBlocks(d) == OptionalSection("CERTIFICATIONS", d.certifications)

AchievementBlocks(d) == OptionalSection("KEY ACHIEVEMENTS", d.achievements)

SkillsBlocks(d) ==
    <<Header("SKILLS"),
      Paragraph("JUSTIFIED", 0, 100, FALSE,
          <<TextRun("Technical skills: ", 22, TRUE, FALSE),
            TextRun(OrDefault(OptField(d.skills, "technical"), "Skills to be added"),
                    22, FALSE, FALSE)>>),
      Paragraph("JUSTIFIED", 0, 180, FALSE,
          <<TextRun("Core competencies: ", 22, TRUE, FALSE),
            TextRun(OrDefault(OptField(d.skills, "core"), "Competencies to be added"),
                    22, FALSE, FALSE)>>)>>

PersonalBlocks(d) ==
    LET languages == OptField(d.personal, "languages")
        visaStatus == OptField(d.personal, "visaStatus")
        other == OrEmptyList(OptField(d.personal, "other"))
    IN  <<Header("PERSONAL DETAILS"),
          Bullet("Nationality: "
                   \o OrDefault(OptField(d.personal, "nationality"), "To be added"), 60)>>
        \o (IF Truthy(languages)
            THEN <<Bullet("Languages: " \o languages.val, 60)>> ELSE <<>>)
        \o (IF Truthy(visaStatus)
            THEN <<Bullet("Visa Status: " \o visaStatus.val, 60)>> ELSE <<>>)
        \o [i \in 1..Len(other) |-> Bullet(other[i], 60)]

\* the children with the achievements placed before the certifications
ChildrenAchievementsFirst(d) ==
    <<NameBlock(d), ContactBlock(d), EmailBlock(d)>>
    \o SummaryBlocks(d)
    \o <<Header("EXPERIENCE")>>
    \o ExperienceBlocks(d)
    \o <<Header("EDUCATON")>>
    \o EducationBlocks(d)
    \o AchievementBlocks(d)
    \o CertificationBlocks(d)
    \o SkillsBlocks(d)
    \o PersonalBlocks(d)

\* the children array of the section, lines 237-530
Children(d) ==
    <<NameBlock(d), ContactBlock(d), EmailBlock(d)>>
    \o SummaryBlocks(d)
    \o <<Header("EXPERIENCE")>>
    \o ExperienceBlocks(d)
    \o <<Header("EDUCATON")>>
    \o EducationBlocks(d)
    \o CertificationBlocks(d)
    \o AchievementBlocks(d)
    \o SkillsBlocks(d)
    \o PersonalBlocks(d)

\* generateWordDocument(data): reading a property of null throws TypeError;
\* the buffer is the serialisation of the children.
generateWordDocument(d) ==
    IF d.type = "null"
    THEN Throw(Err("TypeError", <<"Cannot read properties of null">>))
    ELSE Return(Children(d))

(***************************************************************************)
(* Records handed to the renderer.  Every field is varied over absent,     *)
(* empty and present values, one group of fields at a time, on top of the   *)
(* record with nothing in it and of a record with everything in it.         *)
(***************************************************************************)
Str == {"a", "b"}
OptStr == {None, Some(""), Some("a")}
OptPresent == {None, Some("a")}
OptList(n) == {None} \cup {Some(l) : l \in SeqsUpTo(Str, n)}

\* the lists "a", "b", "a", ... of each length up to n
ItemLists(n) == {[i \in 1..k |-> IF i % 2 = 1 THEN "a" ELSE "b"] : k \in 0..n}

NullData == [type |-> "null"]

EmptyRecord ==
    [type |-> "object", name |-> None, location |-> None, phone |-> None,
     email |-> None, summary |-> None, experience |-> None, education |-> None,
     certifications |-> None, achievements |-> None, skills |-> None,
     personal |-> None]

FullJob == [title |-> Some("a"), dates |-> Some("b"), company |-> Some("a"),
            responsibilities |-> Some(<<"b">>)]
FullEdu == [degree |-> Some("a"), institution |-> Some("b"), year |-> Some("a")]

FullRecord ==
    [type |-> "object", name |-> Some("a"), location |-> Some("b"),
     phone |-> Some("a"), email |-> Some("b"), summary |-> Some(<<"a", "b">>),
     experience |-> Some(<<FullJob>>), education |-> Some(<<FullEdu>>),
     certifications |-> Some(<<"a">>), achievements |-> Some(<<"b">>),
     skills |-> Some([technical |-> Some("a"), core |-> Some("b")]),
     personal |-> Some([nationality |-> Some("a"), languages |-> Some("b"),
                        visaStatus |-> Some("a"), other |-> Some(<<"b">>)])]

Bases == {EmptyRecord, FullRecord}

Jobs ==
    {[title |-> t, dates |-> d, company |-> c, responsibilities |-> None] :
        t \in OptPresent, d \in OptPresent, c \in OptPresent}
    \cup {[title |-> Some("a"), dates |-> None, company |-> None,
           responsibilities |-> r] : r \in {None} \cup {Some(l) : l \in ItemLists(MaxList)}}

Edus == {[degree |-> g, institution |-> i, year |-> y] :
            g \in OptPresent, i \in OptPresent, y \in OptPresent}

SkillsValues ==
    {None} \cup {Some([technical |-> t, core |-> c]) : t \in OptStr, c \in OptStr}

PersonalValues ==
    {None} \cup {Some([nationality |-> n, languages |-> l, visaStatus |-> v,
                       other |-> o]) :
                    n \in OptStr, l \in OptStr, v \in OptStr, o \in OptList(MaxList)}

Records ==
    {[b EXCEPT !.name = n, !.location = l, !.phone = p, !.email = e] :
        b \in Bases, n \in OptStr, l \in OptStr, p \in OptStr, e \in OptStr}
    \cup {[b EXCEPT !.summary = s] : b \in Bases, s \in OptList(MaxList + 1)}
    \cup {[b EXCEPT !.experience = x] :
            b \in Bases, x \in {None} \cup {Some(l) : l \in SeqsUpTo(Jobs, MaxJobs)}}
    \cup {[b EXCEPT !.education = x] :
            b \in Bases, x \in {None} \cup {Some(l) : l \in SeqsUpTo(Edus, MaxJobs)}}
    \cup {[b EXCEPT !.certifications = c, !.achievements = a] :
            b \in Bases, c \in OptList(MaxList), a \in OptList(MaxList)}
    \cup {[b EXCEPT !.skills = k] : b \in Bases, k \in SkillsValues}
    \cup {[b EXCEPT !.personal = q] : b \in Bases, q \in PersonalValues}

(***************************************************************************)
(* SpecRender: generateWordDocument on every record within the bounds.      *)
(***************************************************************************)
RenderInit ==
    /\ data \in Records \cup {NullData}
    /\ doc = NoResult
    /\ rpc = "start"

Render ==
    /\ rpc = "start"
    /\ doc' = generateWordDocument(data)
    /\ rpc' = "done"
    /\ UNCHANGED data

(***************************************************************************)
(* The /convert handler.                                                   *)
(***************************************************************************)
Reqs == 1..NumReq

PdfMime == "application/pdf"
DocxMime == "application/vnd.openxmlformats-officedocument.wordprocessingml.document"
DocMime == "application/msword"
TextMime == "text/plain"

\* uploads: no file, or a file of some MIME type whose bytes the extraction
\* library can or cannot read
Files ==
    {None}
    \cup {Some([mimetype |-> m, buffer |-> b, stem |-> "cv"]) :
            m \in {PdfMime, DocxMime}, b \in {"good", "corrupt"}}
    \cup {Some([mimetype |-> m, buffer |-> "good", stem |-> "cv"]) :
            m \in {DocMime, TextMime, "image/png"}}

ApiKeys == {None, Some(""), Some("sk-1")}

\* every upload with a usable key; no key or an empty key with no file, a
\* readable file and a file of an unsupported type
Requests ==
    {[file |-> f, apiKey |-> Some("sk-1")] : f \in Files}
    \cup {[file |-> f, apiKey |-> k] :
            f \in {None,
                   Some([mimetype |-> PdfMime, buffer |-> "good", stem |-> "cv"]),
                   Some([mimetype |-> "image/png", buffer |-> "good", stem |-> "cv"])},
            k \in ApiKeys}

\* replies the remote endpoint gives in this specification
HandlerContents ==
    {<<"{", "k", "v", "}">>, <<"n">>, <<"p">>}

HandlerOutcomes ==
    {[net |-> "rejected"],
     [net |-> "response", status |-> 401,
      body |-> [json |-> TRUE, shape |-> "error",
                message |-> Some("Incorrect API key")]]}
    \cup {[net |-> "response", status |-> 200,
           body |-> [json |-> TRUE, shape |-> "completion", content |-> c]] :
             c \in HandlerContents}

NoOutcome == [net |-> "pending"]
NoResponse == [sent |-> FALSE]
Undefined == <<"undefined">>

\* res.status(code).json({error: message})
JsonError(code, message) ==
    [sent |-> TRUE, status |-> code, body |-> [kind |-> "json", error |-> message]]

\* res.set({...}); res.send(docBuffer), lines 101-105
SendDocument(file, buffer) ==
    [sent |-> TRUE, status |-> 200,
     body |-> [kind |-> "document", buffer |-> buffer,
               filename |-> file.stem \o "_converted.docx"]]

\* the catch at the request boundary, lines 107-110
CatchResponse(error) == JsonError(500, error.message)

\* Validate without the apiKey check of lines 65-67
ValidateNoKeyCheck(rq) ==
    IF ~rq.file.has
    THEN Some(JsonError(400, <<"No file uploaded">>))
    ELSE IF rq.file.val.mimetype \in {PdfMime, DocxMime, DocMime, TextMime}
         THEN None
         ELSE Some(JsonError(400, <<"Unsupported file type">>))

\* Validate with the apiKey check made before the file check
ValidateKeyFirst(rq) ==
    IF ~Truthy(rq.apiKey)
    THEN Some(JsonError(400, <<"API key is required">>))
    ELSE IF ~rq.file.has
         THEN Some(JsonError(400, <<"No file uploaded">>))
         ELSE IF rq.file.val.mimetype \in {PdfMime, DocxMime, DocMime, TextMime}
              THEN None
              ELSE Some(JsonError(400, <<"Unsupported file type">>))

\* lines 61-67 and the MIME dispatch of lines 74-88, all before the first await:
\* the 400 response, or None when extraction is started
Validate(rq) ==
    IF ~rq.file.has
    THEN Some(JsonError(400, <<"No file uploaded">>))
    ELSE IF ~Truthy(rq.apiKey)
         THEN Some(JsonError(400, <<"API key is required">>))
         ELSE IF rq.file.val.mimetype \in {PdfMime, DocxMime, DocMime, TextMime}
              THEN None
              ELSE Some(JsonError(400, <<"Unsupported file type">>))

\* pdfParse / mammoth.extractRawText / buffer.toString, lines 74-85
ExtractText(file) ==
    IF file.mimetype = PdfMime
    THEN IF file.buffer = "good" THEN Return("pdf text")
         ELSE Throw(Err("Error", <<"Invalid PDF structure">>))
    ELSE IF file.mimetype \in {DocxMime, DocMime}
         THEN IF file.buffer = "good" THEN Return("word text")
              ELSE Throw(Err("Error", <<"Could not find file in options">>))
         ELSE Return("plain text")

\* the object JSON.parse returned, as the renderer's property reads see it:
\* null and undefined throw on a property read; a string has none of the
\* fields; "{" "k" x "}" has the field name.
RecordOf(value) ==
    IF value = <<"n">> \/ value = Undefined
    THEN NullData
    ELSE IF Len(value) >= 4
         THEN [EmptyRecord EXCEPT !.name =
                  IF value[3] = "v" THEN Some("a")
                  ELSE IF value[3] = "n" THEN None
                  ELSE Some("[object Object]")]
         ELSE EmptyRecord

\* locals hoisted to module scope: one binding shared by all invocations
SharedLocal(r) == 1

\* 'Authorization': `Bearer ${apiKey}`, line 172
Authorization(apiKey) ==
    <<"Bearer ", IF apiKey.has THEN apiKey.val ELSE "undefined">>

\* each invocation of the handler has its own bindings of its locals
Local(r) == r

\* a handler that re-issues the call when callChatGPTAPI throws
AfterStructureRetry(result) == IF result.ok THEN "render" ELSE "call"

\* where the handler continues once `await callChatGPTAPI` settles (line 93):
\* on to step 3, or to the catch, which responds
AfterStructure(result) == IF result.ok THEN "render" ELSE "done"

\* a handler that sends whatever docBuffer holds, rendered or not
AfterRenderAlwaysSend(result) == "send"

\* where the handler continues once `await generateWordDocument` settles
AfterRender(result) == IF result.ok THEN "send" ELSE "done"

Init ==
    /\ req \in [Reqs -> Requests]
    /\ upstream = [r \in Reqs |-> NoOutcome]
    /\ pc = [r \in Reqs |-> "start"]
    /\ resumeText = [r \in Reqs |-> ""]
    /\ resumeData = [r \in Reqs |-> Undefined]
    /\ docBuffer = [r \in Reqs |-> Undefined]
    /\ res = [r \in Reqs |-> NoResponse]
    /\ calls = [r \in Reqs |-> 0]
    /\ trace = [r \in Reqs |-> <<>>]
    /\ sentAuth = [r \in Reqs |-> <<>>]
    /\ sOutcome = NoOutcome /\ sResult = NoResult /\ spc = "off"
    /\ data = NullData /\ doc = NoResult /\ rpc = "off"

\* lines 57-88 up to the first await
Receive(r) ==
    /\ pc[r] = "start"
    /\ LET v == Validate(req[r])
       IN  IF v.has
           THEN /\ res' = [res EXCEPT ![r] = v.val]
                /\ pc' = [pc EXCEPT ![r] = "done"]
           ELSE /\ pc' = [pc EXCEPT ![r] = "extracting"]
                /\ UNCHANGED res
    /\ UNCHANGED <<req, upstream, resumeText, resumeData, docBuffer, calls, sentAuth, trace>>
    /\ UNCHANGED <<structVars, renderVars>>

\* the extraction settles, lines 74-90
Extracted(r) ==
    /\ pc[r] = "extracting"
    /\ LET x == ExtractText(req[r].file.val)
       IN  IF x.ok
           THEN /\ resumeText' = [resumeText EXCEPT ![Local(r)] = x.value]
                /\ trace' = [trace EXCEPT ![r] = Append(@, "extracted")]
                /\ pc' = [pc EXCEPT ![r] = "call"]
                /\ UNCHANGED res
           ELSE /\ res' = [res EXCEPT ![r] = CatchResponse(x.error)]
                /\ pc' = [pc EXCEPT ![r] = "done"]
                /\ UNCHANGED <<resumeText, trace>>
    /\ UNCHANGED <<req, upstream, resumeData, docBuffer, calls, sentAuth>>
    /\ UNCHANGED <<structVars, renderVars>>

\* callChatGPTAPI issues its fetch(), line 168
CallAPI(r) ==
    /\ pc[r] = "call"
    /\ calls' = [calls EXCEPT ![r] = @ + 1]
    /\ sentAuth' = [sentAuth EXCEPT ![r] = Append(@, Authorization(req[r].apiKey))]
    /\ pc' = [pc EXCEPT ![r] = "fetching"]
    /\ UNCHANGED <<req, upstream, resumeText, resumeData, docBuffer, res, trace>>
    /\ UNCHANGED <<structVars, renderVars>>

\* fetch() settles with outcome o; callChatGPTAPI returns or throws, lines 185-209
Structured(r) ==
    /\ pc[r] = "fetching"
    /\ \E o \in HandlerOutcomes :
         LET result == callChatGPTAPI(o)
             next == AfterStructure(result)
         IN  /\ upstream' = [upstream EXCEPT ![r] = o]
             /\ pc' = [pc EXCEPT ![r] = next]
             /\ IF result.ok
                THEN /\ resumeData' = [resumeData EXCEPT ![Local(r)] = result.value]
                     /\ trace' = [trace EXCEPT ![r] = Append(@, "structured")]
                ELSE UNCHANGED <<resumeData, trace>>
             /\ IF next = "done"
                THEN res' = [res EXCEPT ![r] = CatchResponse(result.error)]
                ELSE UNCHANGED res
    /\ UNCHANGED <<req, resumeText, docBuffer, calls, sentAuth>>
    /\ UNCHANGED <<structVars, renderVars>>

\* generateWordDocument(resumeData), line 97
Rendered(r) ==
    /\ pc[r] = "render"
    /\ LET result == generateWordDocument(RecordOf(resumeData[Local(r)]))
           next == AfterRender(result)
       IN  /\ pc' = [pc EXCEPT ![r] = next]
           /\ IF result.ok
              THEN /\ docBuffer' = [docBuffer EXCEPT ![Local(r)] = result.value]
                   /\ trace' = [trace EXCEPT ![r] = Append(@, "rendered")]
              ELSE UNCHANGED <<docBuffer, trace>>
           /\ IF next = "done"
              THEN res' = [res EXCEPT ![r] = CatchResponse(result.error)]
              ELSE UNCHANGED res
    /\ UNCHANGED <<req, upstream, resumeText, resumeData, calls, sentAuth>>
    /\ UNCHANGED <<structVars, renderVars>>

\* lines 100-105
Send(r) ==
    /\ pc[r] = "send"
    /\ res' = [res EXCEPT ![r] = SendDocument(req[r].file.val, docBuffer[Local(r)])]
    /\ pc' = [pc EXCEPT ![r] = "done"]
    /\ UNCHANGED <<req, upstream, resumeText, resumeData, docBuffer, calls, sentAuth, trace>>
    /\ UNCHANGED <<structVars, renderVars>>

Next ==
    \E r \in Reqs :
        \/ Receive(r)
        \/ Extracted(r)
        \/ CallAPI(r)
        \/ Structured(r)
        \/ Rendered(r)
        \/ Send(r)

Spec == Init /\ [][Next]_vars

StructureInit ==
    /\ StructInit
    /\ req = <<>> /\ upstream = <<>> /\ pc = <<>> /\ resumeText = <<>>
    /\ resumeData = <<>> /\ docBuffer = <<>> /\ res = <<>> /\ calls = <<>>
    /\ trace = <<>> /\ sentAuth = <<>>
    /\ data = NullData /\ doc = NoResult /\ rpc = "off"

StructureNext == Structure /\ UNCHANGED <<reqVars, renderVars>>

SpecStructure == StructureInit /\ [][StructureNext]_vars

RenderingInit ==
    /\ RenderInit
    /\ req = <<>> /\ upstream = <<>> /\ pc = <<>> /\ resumeText = <<>>
    /\ resumeData = <<>> /\ docBuffer = <<>> /\ res = <<>> /\ calls = <<>>
    /\ trace = <<>> /\ sentAuth = <<>>
    /\ sOutcome = NoOutcome /\ sResult = NoResult /\ spc = "off"

RenderNext == Render /\ UNCHANGED <<reqVars, structVars>>

SpecRender == RenderingInit /\ [][RenderNext]_vars

(***************************************************************************)
(* Properties of the /convert handler (Spec).                              *)
(***************************************************************************)
SupportedMimes == {PdfMime, DocxMime, DocMime, TextMime}

\* the request fails validation
Invalid(rq) ==
    \/ ~rq.file.has
    \/ ~Truthy(rq.apiKey)
    \/ rq.file.val.mimetype \notin SupportedMimes

\* the error of the first pipeline step that fails for request r, given what
\* its file holds and what the remote endpoint answered
FailureOf(r) ==
    LET x == ExtractText(req[r].file.val)
    IN  IF ~x.ok THEN Some(x.error)
        ELSE IF upstream[r] = NoOutcome THEN None
        ELSE LET s == callChatGPTAPI(upstream[r])
             IN  IF ~s.ok THEN Some(s.error)
                 ELSE LET g == generateWordDocument(RecordOf(s.value))
                      IN  IF ~g.ok THEN Some(g.error) ELSE None

\* C1: a request that fails validation (no file, no apiKey, unsupported MIME
\* type) is answered 400; a request whose extraction, remote call or rendering
\* fails is answered 500 with the JSON body {error: message}; no such failure
\* is answered with another status, and a 200 is sent only when nothing failed.
C1_ErrorStatuses ==
    \A r \in Reqs :
        pc[r] = "done" =>
            /\ res[r].sent
            /\ IF Invalid(req[r])
               THEN res[r].status = 400 /\ res[r].body.kind = "json"
               ELSE IF FailureOf(r).has
                    THEN /\ res[r].status = 500
                         /\ res[r].body = [kind |-> "json",
                                           error |-> FailureOf(r).val.message]
                    ELSE res[r].status = 200

\* one request refused for its MIME type, another failed in rendering
C1_Witness ==
    \E r1 \in Reqs, r2 \in Reqs :
        /\ pc[r1] = "done" /\ req[r1].file.has /\ Truthy(req[r1].apiKey)
        /\ req[r1].file.val.mimetype = "image/png"
        /\ res[r1].status = 400
        /\ pc[r2] = "done" /\ trace[r2] = <<"extracted", "structured">>
        /\ res[r2].status = 500

\* C2: a 200 response with a document body is sent only after extraction,
\* structuring and rendering have completed in that order; rendering starts
\* only once callChatGPTAPI has returned a record; when a step failed, the
\* response carries no document.
C2_NoPartialOutput ==
    \A r \in Reqs :
        /\ (pc[r] \in {"render", "send"} \/ (Len(trace[r]) >= 3)) =>
              /\ SubSeq(trace[r], 1, 2) = <<"extracted", "structured">>
              /\ callChatGPTAPI(upstream[r]).ok
              /\ resumeData[r] = callChatGPTAPI(upstream[r]).value
        /\ pc[r] = "send" => trace[r] = <<"extracted", "structured", "rendered">>
        /\ res[r].sent =>
              /\ res[r].body.kind = "document" <=> res[r].status = 200
              /\ res[r].status = 200 <=>
                    trace[r] = <<"extracted", "structured", "rendered">>
              /\ res[r].status = 200 => res[r].body.buffer = docBuffer[r]

\* a document was sent for one request, and another failed after structuring
C2_Witness ==
    \E r1 \in Reqs, r2 \in Reqs :
        /\ res[r1].sent /\ res[r1].status = 200
        /\ res[r1].body.kind = "document"
        /\ res[r2].sent /\ res[r2].status = 500
        /\ trace[r2] = <<"extracted", "structured">>

\* C3: the completion endpoint is called at most once per request, whatever
\* the outcome of the call.
C3_SingleAttempt ==
    \A r \in Reqs :
        /\ calls[r] <= 1
        /\ upstream[r] # NoOutcome => calls[r] = 1
        /\ (pc[r] = "done" /\ upstream[r] # NoOutcome /\ ~callChatGPTAPI(upstream[r]).ok)
              => res[r].sent /\ res[r].status = 500

\* calls that failed in each way: transport error, non-success status,
\* unparsable reply
C3_Witness ==
    \E r1 \in Reqs, r2 \in Reqs :
        /\ pc[r1] = "done" /\ upstream[r1].net = "rejected" /\ calls[r1] = 1
        /\ pc[r2] = "done" /\ upstream[r2].net = "response" /\ calls[r2] = 1
        /\ ~callChatGPTAPI(upstream[r2]).ok

\* the response of a request handled alone: the steps of the handler in
\* sequence, on the request and on the answer the remote endpoint gave it
ConvertAlone(rq, o) ==
    IF Validate(rq).has THEN Validate(rq).val
    ELSE LET x == ExtractText(rq.file.val)
         IN  IF ~x.ok THEN CatchResponse(x.error)
             ELSE LET s == callChatGPTAPI(o)
                  IN  IF ~s.ok THEN CatchResponse(s.error)
                      ELSE LET g == generateWordDocument(RecordOf(s.value))
                           IN  IF ~g.ok THEN CatchResponse(g.error)
                               ELSE SendDocument(rq.file.val, g.value)

\* C6: whatever the interleaving of the requests' steps, each request's
\* response is the one it gets when handled alone.
C6_NoInterference ==
    \A r \in Reqs :
        pc[r] = "done" => res[r] = ConvertAlone(req[r], upstream[r])

\* two requests went through the whole pipeline with different replies and
\* different responses
C6_Witness ==
    \E r1 \in Reqs, r2 \in Reqs :
        /\ r1 # r2
        /\ pc[r1] = "done" /\ pc[r2] = "done"
        /\ calls[r1] = 1 /\ calls[r2] = 1
        /\ res[r1].status = 200 /\ res[r2].status = 500
        /\ trace[r2] = <<"extracted", "structured">>

(***************************************************************************)
(* Properties of callChatGPTAPI (SpecStructure).                           *)
(***************************************************************************)
Count(text, a, b, tok) == Cardinality({x \in a..b : text[x] = tok})

\* j closes the brace opened at i: the braces of text[i..j] balance, and
\* those of no shorter text[i..m] do
Closes(text, i, j) ==
    /\ text[j] = "}"
    /\ Count(text, i, j, "{") = Count(text, i, j, "}")
    /\ \A m \in i..(j-1) : Count(text, i, m, "{") > Count(text, i, m, "}")

\* the first top-level {...} span of a text, when it has one
HasTopLevelSpan(text) ==
    /\ \E i \in 1..Len(text) : text[i] = "{"
    /\ \E j \in FirstOpen(text)..Len(text) : Closes(text, FirstOpen(text), j)
FirstTopLevelSpan(text) ==
    SubSeq(text, FirstOpen(text),
           CHOOSE j \in FirstOpen(text)..Len(text) : Closes(text, FirstOpen(text), j))

\* the outcome is a success response whose body carries a message content
IsCompletion(o) ==
    /\ o.net = "response" /\ ResponseOk(o.status)
    /\ o.body.json /\ o.body.shape = "completion"

\* C4: the message content is parsed as JSON; if that fails, the first
\* top-level {...} span is parsed; if both fail, or there is no span, the call
\* fails with the 'Failed to parse ChatGPT response as JSON' error and with no
\* other error.
C4_ParseOrFormatError ==
    (spc = "done" /\ IsCompletion(sOutcome)) =>
        LET text == sOutcome.body.content
        IN  sResult =
              IF JSONParseOk(text) THEN Return(JSONParseValue(text))
              ELSE IF HasTopLevelSpan(text) /\ JSONParseOk(FirstTopLevelSpan(text))
                   THEN Return(JSONParseValue(FirstTopLevelSpan(text)))
                   ELSE Throw(Err("Error", <<ParseFailedMessage>>))

\* the part of C4 the code does satisfy: prose with no brace in it around one
\* valid {...} span yields that span's value
ProseWrappedSpan ==
    (spc = "done" /\ IsCompletion(sOutcome)) =>
        LET text == sOutcome.body.content
        IN  \A i \in 1..Len(text), j \in 1..Len(text) :
              ( /\ i <= j /\ (i > 1 \/ j < Len(text))
                /\ text[i] = "{"
                /\ JSONParseOk(SubSeq(text, i, j))
                /\ \A m \in (1..(i-1)) \cup ((j+1)..Len(text)) : text[m] \in {"p", "w"} )
              => sResult = Return(JSONParseValue(SubSeq(text, i, j)))

\* the error is the one callChatGPTAPI raises for a non-success response
IsRemoteServiceError(e) ==
    e.name = "Error" /\ Len(e.message) >= 1 /\ e.message[1] = ApiErrorPrefix

Carries(message, part) == \E i \in 1..Len(message) : message[i] = part

\* C5: on a non-success response callChatGPTAPI fails with the
\* 'ChatGPT API error' error carrying the upstream status and the upstream
\* error message, and returns no record.
C5_RemoteServiceError ==
    (spc = "done" /\ sOutcome.net = "response" /\ ~ResponseOk(sOutcome.status)) =>
        /\ ~sResult.ok
        /\ IsRemoteServiceError(sResult.error)
        /\ Carries(sResult.error.message, ToString(sOutcome.status))
        /\ (sOutcome.body.json /\ sOutcome.body.shape = "error"
              /\ sOutcome.body.message.has)
             => Carries(sResult.error.message, sOutcome.body.message.val)

(***************************************************************************)
(* Properties of generateWordDocument (SpecRender).                        *)
(***************************************************************************)
RECURSIVE JoinText(_)
\* the text of a paragraph: the texts of its runs, joined
JoinText(runs) == IF runs = <<>> THEN "" ELSE Head(runs).text \o JoinText(Tail(runs))

Texts(paragraphs) == [i \in 1..Len(paragraphs) |-> JoinText(paragraphs[i].children)]

IsHeader(p, label) ==
    /\ Len(p.children) = 1
    /\ p.children[1] = [text |-> label, size |-> 24, bold |-> TRUE, underline |-> FALSE]
    /\ ~p.bullet

HeaderCount(paragraphs, label) ==
    Cardinality({i \in 1..Len(paragraphs) : IsHeader(paragraphs[i], label)})

Falsy(opt) == ~opt.has \/ opt.val = ""
NoItems(opt) == ~opt.has \/ opt.val = <<>>

\* a record with nothing in it: every field absent or empty
Blank(d) ==
    /\ d.type = "object"
    /\ Falsy(d.name) /\ Falsy(d.location) /\ Falsy(d.phone) /\ Falsy(d.email)
    /\ NoItems(d.summary) /\ NoItems(d.experience) /\ NoItems(d.education)
    /\ NoItems(d.certifications) /\ NoItems(d.achievements)
    /\ d.skills.has => Falsy(d.skills.val.technical) /\ Falsy(d.skills.val.core)
    /\ d.personal.has =>
          /\ Falsy(d.personal.val.nationality) /\ Falsy(d.personal.val.languages)
          /\ Falsy(d.personal.val.visaStatus) /\ NoItems(d.personal.val.other)

\* C7: rendering a record with every optional field absent (or empty) does
\* not fail and yields exactly the placeholder lines under the EXPERIENCE,
\* EDUCATON, SKILLS and PERSONAL DETAILS headers, with no CERTIFICATIONS or
\* KEY ACHIEVEMENTS section and no Languages or Visa Status line.
C7_BlankRecord ==
    (rpc = "done" /\ Blank(data)) =>
        /\ doc.ok
        /\ Texts(doc.value) =
             <<"NAME", "Location|Phone", "email@example.com",
               "EXPERIENCE", "EDUCATON",
               "SKILLS", "Technical skills: Skills to be added",
               "Core competencies: Competencies to be added",
               "PERSONAL DETAILS", "Nationality: To be added">>

\* the record with every field absent has been rendered
C7_Witness == rpc = "done" /\ data = EmptyRecord /\ doc.ok

RECURSIVE JobTexts(_)
\* the lines of the jobs: title and dates, company, then the responsibilities
JobTexts(jobs) ==
    IF jobs = <<>> THEN <<>>
    ELSE <<OrDefault(Head(jobs).title, "Job Title") \o DatesPadding
              \o OrDefault(Head(jobs).dates, "Dates"),
           OrDefault(Head(jobs).company, "Company Name")>>
         \o OrEmptyList(Head(jobs).responsibilities)
         \o JobTexts(Tail(jobs))

RECURSIVE EduTexts(_)
EduTexts(edus) ==
    IF edus = <<>> THEN <<>>
    ELSE <<OrDefault(Head(edus).degree, "Degree"),
           OrDefault(Head(edus).institution, "Institution") \o " | "
              \o OrDefault(Head(edus).year, "Year")>>
         \o EduTexts(Tail(edus))

\* the lines of the document in the documented order
OrderedTexts(d) ==
    <<OrDefault(d.name, "NAME"),
      OrDefault(d.location, "Location") \o "|" \o OrDefault(d.phone, "Phone"),
      OrDefault(d.email, "email@example.com")>>
    \o OrEmptyList(d.summary)
    \o <<"EXPERIENCE">> \o JobTexts(OrEmptyList(d.experience))
    \o <<"EDUCATON">> \o EduTexts(OrEmptyList(d.education))
    \o (IF NoItems(d.certifications) THEN <<>>
        ELSE <<"CERTIFICATIONS">> \o d.certifications.val)
    \o (IF NoItems(d.achievements) THEN <<>>
        ELSE <<"KEY ACHIEVEMENTS">> \o d.achievements.val)
    \o <<"SKILLS",
         "Technical skills: "
            \o OrDefault(OptField(d.skills, "technical"), "Skills to be added"),
         "Core competencies: "
            \o OrDefault(OptField(d.skills, "core"), "Competencies to be added")>>
    \o <<"PERSONAL DETAILS",
         "Nationality: "
            \o OrDefault(OptField(d.personal, "nationality"), "To be added")>>
    \o (IF Falsy(OptField(d.personal, "languages")) THEN <<>>
        ELSE <<"Languages: " \o d.personal.val.languages.val>>)
    \o (IF Falsy(OptField(d.personal, "visaStatus")) THEN <<>>
        ELSE <<"Visa Status: " \o d.personal.val.visaStatus.val>>)
    \o OrEmptyList(OptField(d.personal, "other"))

\* C8: the blocks come in the fixed order name, contact, email, summary,
\* EXPERIENCE and jobs, EDUCATON and entries, CERTIFICATIONS, KEY ACHIEVEMENTS,
\* SKILLS and its two lines, PERSONAL DETAILS and its lines, list items in
\* input order; the CERTIFICATIONS and KEY ACHIEVEMENTS headers appear exactly
\* when their lists are non-empty, every other header exactly once.
C8_FixedOrder ==
    (rpc = "done" /\ data.type = "object") =>
        /\ doc.ok
        /\ Texts(doc.value) = OrderedTexts(data)
        /\ \A h \in {"EXPERIENCE", "EDUCATON", "SKILLS", "PERSONAL DETAILS"} :
              HeaderCount(doc.value, h) = 1
        /\ HeaderCount(doc.value, "CERTIFICATIONS") =
              (IF NoItems(data.certifications) THEN 0 ELSE 1)
        /\ HeaderCount(doc.value, "KEY ACHIEVEMENTS") =
              (IF NoItems(data.achievements) THEN 0 ELSE 1)

\* a record with certifications and no achievements, and lists of two items
C8_Witness ==
    /\ rpc = "done" /\ data.type = "object" /\ doc.ok
    /\ data.certifications = Some(<<"a", "b">>)
    /\ data.achievements = Some(<<>>)
    /\ data.summary.has /\ data.experience.has

RECURSIVE BlocksBefore(_, _)
\* the number of blocks the first j jobs take
BlocksBefore(jobs, j) ==
    IF j = 0 THEN 0
    ELSE BlocksBefore(jobs, j - 1) + 2 + Len(OrEmptyList(jobs[j].responsibilities))

\* the block of responsibility r of job j
ResponsibilityBlock(d, paragraphs, j, r) ==
    paragraphs[3 + Len(OrEmptyList(d.summary)) + 1
               + BlocksBefore(OrEmptyList(d.experience), j - 1) + 2 + r]

\* C9: in a job, every responsibility but the last gets the small gap (60);
\* the last one gets the larger gap (120) exactly when another job follows,
\* and the small gap in the last job.
C9_ExperienceSpacing ==
    (rpc = "done" /\ data.type = "object") =>
        LET jobs == OrEmptyList(data.experience)
        IN  \A j \in 1..Len(jobs) :
              LET resp == OrEmptyList(jobs[j].responsibilities)
              IN  \A r \in 1..Len(resp) :
                    LET p == ResponsibilityBlock(data, doc.value, j, r)
                    IN  /\ p.bullet
                        /\ JoinText(p.children) = resp[r]
                        /\ p.after = IF r = Len(resp) /\ j < Len(jobs)
                                     THEN 120 ELSE 60

\* two jobs with two responsibilities each have been rendered
C9_Witness ==
    /\ rpc = "done" /\ data.type = "object" /\ doc.ok
    /\ data.experience.has /\ Len(data.experience.val) = 2
    /\ \A j \in 1..2 :
          /\ data.experience.val[j].responsibilities.has
          /\ Len(data.experience.val[j].responsibilities.val) = 2

\* C10: a summary of N >= 1 paragraphs yields exactly N justified summary
\* blocks in input order after the email block; the first N-1 get the small
\* gap (120), the last the large gap (240).
C10_SummarySpacing ==
    (rpc = "done" /\ data.type = "object" /\ ~NoItems(data.summary)) =>
        LET summary == data.summary.val
            N == Len(summary)
            D == doc.value
        IN  /\ \A i \in 1..N :
                  /\ D[3 + i].alignment = "JUSTIFIED"
                  /\ JoinText(D[3 + i].children) = summary[i]
                  /\ D[3 + i].after = IF i = N THEN 240 ELSE 120
            /\ IsHeader(D[3 + N + 1], "EXPERIENCE")
            /\ Cardinality({i \in 1..Len(D) : D[i].alignment = "JUSTIFIED"}) = N + 2

\* summaries of one and of several paragraphs have been rendered
C10_Witness ==
    /\ rpc = "done" /\ data.type = "object" /\ doc.ok
    /\ data.summary.has /\ Len(data.summary.val) = MaxList + 1

(***************************************************************************)
(* Validation and the remote call (Spec).                                  *)
(***************************************************************************)
\* the message of the first check that fails, in the order file, apiKey,
\* MIME type
FirstFailingCheck(rq) ==
    IF ~rq.file.has THEN <<"No file uploaded">>
    ELSE IF ~rq.apiKey.has \/ rq.apiKey.val = "" THEN <<"API key is required">>
    ELSE <<"Unsupported file type">>

\* C11: a request answered with 400 never has the completion endpoint called
\* and never has its apiKey sent upstream; the checks are made in the order
\* file, apiKey, MIME type, and the first one that fails decides the response.
\* A request that fails a check is answered with nothing else and calls
\* nothing at any point.
C11_ValidationFirst ==
    \A r \in Reqs :
        /\ (res[r].sent /\ res[r].status = 400) =>
              /\ calls[r] = 0
              /\ sentAuth[r] = <<>>
              /\ upstream[r] = NoOutcome
              /\ trace[r] = <<>>
              /\ Invalid(req[r])
              /\ res[r].body = [kind |-> "json", error |-> FirstFailingCheck(req[r])]
        /\ Invalid(req[r]) =>
              /\ calls[r] = 0 /\ sentAuth[r] = <<>>
              /\ pc[r] \in {"start", "done"}
        /\ \A i \in 1..Len(sentAuth[r]) :
              req[r].apiKey.has /\ sentAuth[r][i] = <<"Bearer ", req[r].apiKey.val>>

\* two requests that each fail two checks have been answered by the first
\* of them: no file and no key, and a file of an unsupported type with no key
C11_Witness ==
    \E r1 \in Reqs, r2 \in Reqs :
        /\ pc[r1] = "done" /\ ~req[r1].file.has /\ ~Truthy(req[r1].apiKey)
        /\ res[r1].status = 400
        /\ pc[r2] = "done" /\ req[r2].file.has /\ ~Truthy(req[r2].apiKey)
        /\ req[r2].file.val.mimetype = "image/png"
        /\ res[r2].status = 400

====
